---- MODULE Spec2Model ----
(***************************************************************************)
(* The lexer of src/main.go as a state machine.  One Lexer value is the    *)
(* record lx; code points are integers (Go runes); a lexeme is a sequence  *)
(* of runes.  Source indices are 0-based as in the Go code, so the rune at *)
(* index j is src[j + 1].                                                  *)
(***************************************************************************)
EXTENDS Integers, Sequences, FiniteSets, TLC

VARIABLES
    src,      \* lx.src: the decoded input, a sequence of runes
    length,   \* lx.length
    i,        \* lx.i: the cursor (0-based)
    line,     \* lx.line
    col,      \* lx.col
    tokens,   \* lx.tokens
    errors,   \* lx.errors
    pc,       \* position of LexAll: "lexing" inside the loop, "done" after it
    tokAt,    \* history: tokAt[k] is the index where the attempt of tokens[k] began
    errAt,    \* history: errAt[k] is the index where the attempt of errors[k] began
    pieces    \* history: the consumed text, cut into trivia / token / error pieces

vars == <<src, length, i, line, col, tokens, errors, pc, tokAt, errAt, pieces>>

\* ------------------------------------------------------------------ runes
\* The runes the model names: the rune literals of the source, the letters and
\* digits of its tables, and one non-ASCII letter and digit.
Ch_NUL == 0

Ch_TAB == 9

Ch_LF == 10

Ch_CR == 13

Ch_SP == 32

Ch_Bang == 33

Ch_DQ == 34

Ch_Hash == 35

Ch_Percent == 37

Ch_Amp == 38

Ch_SQ == 39

Ch_LParen == 40

Ch_RParen == 41

Ch_Star == 42

Ch_Plus == 43

Ch_Comma == 44

Ch_Minus == 45

Ch_Dot == 46

Ch_Slash == 47

Ch_0 == 48

Ch_1 == 49

Ch_2 == 50

Ch_3 == 51

Ch_4 == 52

Ch_6 == 54

Ch_7 == 55

Ch_8 == 56

Ch_9 == 57

Ch_Colon == 58

Ch_Semi == 59

Ch_Lt == 60

Ch_Eq == 61

Ch_Gt == 62

Ch_At == 64

Ch_A == 65

Ch_B == 66

Ch_E == 69

Ch_F == 70

Ch_I == 73

Ch_O == 79

Ch_X == 88

Ch_LBrack == 91

Ch_BSL == 92

Ch_RBrack == 93

Ch_Caret == 94

Ch_Underscore == 95

Ch_BQ == 96

Ch_a == 97

Ch_b == 98

Ch_c == 99

Ch_d == 100

Ch_e == 101

Ch_f == 102

Ch_g == 103

Ch_h == 104

Ch_i == 105

Ch_j == 106

Ch_k == 107

Ch_l == 108

Ch_m == 109

Ch_n == 110

Ch_o == 111

Ch_p == 112

Ch_r == 114

Ch_s == 115

Ch_t == 116

Ch_u == 117

Ch_v == 118

Ch_w == 119

Ch_x == 120

Ch_y == 121

Ch_LBrace == 123

Ch_Pipe == 124

Ch_RBrace == 125

Ch_eacute == 233

Ch_arabic1 == 1633

\* unicode.IsLetter / unicode.IsDigit / unicode.ToLower on the runes of the
\* model: ASCII letters and U+00E9; ASCII digits and U+0661 (category Nd).
IsLetter(r) == r \in (65..90) \cup (97..122) \cup {Ch_eacute}

IsDigit(r) == r \in (48..57) \cup {Ch_arabic1}

ToLowerRune(r) == IF r \in 65..90 THEN r + 32 ELSE r

ToLower(s) == [k \in 1..Len(s) |-> ToLowerRune(s[k])]

\* strings.Contains(s, p) and strings.ContainsAny(s, chars)
Contains(s, p) ==
    \E k \in 0..(Len(s) - Len(p)) : \A j \in 1..Len(p) : s[k + j] = p[j]

ContainsAny(s, chars) == \E k \in 1..Len(s) : s[k] \in chars

\* ------------------------------------------------------------------ tables
keywords ==
    <<Ch_p, Ch_k, Ch_g>> :> "KW_PKG" @@
    <<Ch_i, Ch_m, Ch_p>> :> "KW_IMP" @@
    <<Ch_d, Ch_e, Ch_f>> :> "KW_DEF" @@
    <<Ch_v, Ch_a, Ch_r>> :> "KW_VAR" @@
    <<Ch_c, Ch_o, Ch_n, Ch_s>> :> "KW_CONS" @@
    <<Ch_t, Ch_y, Ch_p, Ch_e>> :> "KW_TYPE" @@
    <<Ch_s, Ch_t, Ch_r, Ch_u, Ch_c, Ch_t>> :> "KW_STRUCT" @@
    <<Ch_i, Ch_n, Ch_t, Ch_e, Ch_r, Ch_f, Ch_a, Ch_c, Ch_e>> :> "KW_INTERFACE" @@
    <<Ch_m, Ch_a, Ch_p, Ch_p, Ch_i, Ch_n, Ch_g>> :> "KW_MAPPING" @@
    <<Ch_c, Ch_h, Ch_a, Ch_n, Ch_n, Ch_e, Ch_l>> :> "KW_CHANNEL" @@
    <<Ch_j>> :> "KW_J" @@
    <<Ch_s, Ch_e, Ch_l, Ch_e, Ch_c, Ch_t>> :> "KW_SELECT" @@
    <<Ch_l, Ch_a, Ch_t, Ch_e, Ch_r>> :> "KW_LATER" @@
    <<Ch_r, Ch_e, Ch_t>> :> "KW_RET" @@
    <<Ch_i, Ch_f>> :> "KW_IF" @@
    <<Ch_e, Ch_l, Ch_s, Ch_e>> :> "KW_ELSE" @@
    <<Ch_s, Ch_w, Ch_i, Ch_t, Ch_c, Ch_h>> :> "KW_SWITCH" @@
    <<Ch_c, Ch_a, Ch_s, Ch_e>> :> "KW_CASE" @@
    <<Ch_f, Ch_a, Ch_l, Ch_l>> :> "KW_FALL" @@
    <<Ch_f, Ch_r>> :> "KW_FR" @@
    <<Ch_r, Ch_a, Ch_n, Ch_g, Ch_e>> :> "KW_RANGE" @@
    <<Ch_b, Ch_r, Ch_e, Ch_a, Ch_k>> :> "KW_BREAK" @@
    <<Ch_c, Ch_o, Ch_n, Ch_t, Ch_i, Ch_n, Ch_u, Ch_e>> :> "KW_CONTINUE" @@
    <<Ch_j, Ch_o, Ch_t, Ch_o>> :> "KW_JOTO" @@
    <<Ch_d, Ch_f, Ch_t>> :> "KW_DFT" @@
    <<Ch_p, Ch_a, Ch_n, Ch_i, Ch_c>> :> "KW_PANIC" @@
    <<Ch_r, Ch_e, Ch_c, Ch_o, Ch_v, Ch_e, Ch_r>> :> "KW_RECOVER" @@
    <<Ch_r, Ch_e, Ch_c, Ch_o, Ch_v, Ch_e, Ch_r, Ch_y>> :> "KW_RECOVER"

typeNames ==
    {<<Ch_i, Ch_8>>,
     <<Ch_i, Ch_1, Ch_6>>,
     <<Ch_i, Ch_3, Ch_2>>,
     <<Ch_i, Ch_6, Ch_4>>,
     <<Ch_u, Ch_8>>,
     <<Ch_u, Ch_1, Ch_6>>,
     <<Ch_u, Ch_3, Ch_2>>,
     <<Ch_u, Ch_6, Ch_4>>,
     <<Ch_f, Ch_3, Ch_2>>,
     <<Ch_f, Ch_6, Ch_4>>,
     <<Ch_b, Ch_o, Ch_o, Ch_l>>,
     <<Ch_s, Ch_t, Ch_r, Ch_i, Ch_n, Ch_g>>}

\* the punctuation / operator token types and the symbol each stands for
symbols ==
    <<Ch_LParen>> :> "LPAREN" @@ <<Ch_RParen>> :> "RPAREN" @@ <<Ch_LBrace>> :> "LBRACE" @@
    <<Ch_RBrace>> :> "RBRACE" @@ <<Ch_LBrack>> :> "LBRACK" @@ <<Ch_RBrack>> :> "RBRACK" @@
    <<Ch_Comma>> :> "COMMA" @@ <<Ch_Semi>> :> "SEMI" @@ <<Ch_Colon>> :> "COLON" @@
    <<Ch_Dot>> :> "DOT" @@ <<Ch_Eq>> :> "ASSIGN" @@ <<Ch_Colon, Ch_Eq>> :> "DECL" @@
    <<Ch_Plus>> :> "PLUS" @@ <<Ch_Minus>> :> "MINUS" @@ <<Ch_Star>> :> "STAR" @@
    <<Ch_Slash>> :> "SLASH" @@ <<Ch_Percent>> :> "PERCENT" @@ <<Ch_Lt>> :> "LT" @@
    <<Ch_Gt>> :> "GT" @@ <<Ch_Lt, Ch_Eq>> :> "LE" @@ <<Ch_Gt, Ch_Eq>> :> "GE" @@
    <<Ch_Eq, Ch_Eq>> :> "EQ" @@ <<Ch_Bang, Ch_Eq>> :> "NE" @@ <<Ch_Amp, Ch_Amp>> :> "ANDAND" @@
    <<Ch_Pipe, Ch_Pipe>> :> "OROR" @@ <<Ch_Amp>> :> "BAND" @@ <<Ch_Pipe>> :> "BOR" @@
    <<Ch_Caret>> :> "BXOR" @@ <<Ch_Lt, Ch_Lt>> :> "SHL" @@ <<Ch_Gt, Ch_Gt>> :> "SHR" @@
    <<Ch_Plus, Ch_Eq>> :> "ADDEQ" @@ <<Ch_Minus, Ch_Eq>> :> "SUBEQ" @@ <<Ch_Star, Ch_Eq>> :> "MULEQ" @@
    <<Ch_Slash, Ch_Eq>> :> "DIVEQ" @@ <<Ch_Percent, Ch_Eq>> :> "MODEQ" @@ <<Ch_Amp, Ch_Eq>> :> "ANDEQ" @@
    <<Ch_Pipe, Ch_Eq>> :> "OREQ" @@ <<Ch_Caret, Ch_Eq>> :> "XOREQ" @@ <<Ch_Lt, Ch_Lt, Ch_Eq>> :> "SHLEQ" @@
    <<Ch_Gt, Ch_Gt, Ch_Eq>> :> "SHREQ" @@ <<Ch_Lt, Ch_Minus>> :> "CH_SEND" @@ <<Ch_Bang>> :> "BANG"

\* ------------------------------------------------------------------ source buffer
NewLexer(input) ==
    [src |-> input, length |-> Len(input), i |-> 0, line |-> 1, col |-> 1,
     tokens |-> <<>>, errors |-> <<>>,
     at |-> 0, tokAt |-> <<>>, errAt |-> <<>>]

\* The outcome of indexing src below 0: a run-time panic in Go (index out of
\* range).  No rune is negative, so the value is distinct from every rune.
Panic == -1

\* peek returns 0 both for "past the end" and for a rune U+0000 of the input.
\* Only the upper bound is tested, so a negative index reaches lx.src[j].
peek(lx, n) ==
    LET j == lx.i + n IN
    IF j >= lx.length THEN 0
    ELSE IF j < 0 THEN Panic
    ELSE lx.src[j + 1]

\* the Lexer after advance()
\* variant: a newline does not reset the column
advance_NoColReset(lx) ==
    IF lx.i >= lx.length THEN lx
    ELSE LET ch == lx.src[lx.i + 1] IN
         IF ch = Ch_LF
         THEN [lx EXCEPT !.i = @ + 1, !.line = @ + 1, !.col = @ + 1]
         ELSE [lx EXCEPT !.i = @ + 1, !.col = @ + 1]

advance(lx) ==
    IF lx.i >= lx.length THEN lx
    ELSE LET ch == lx.src[lx.i + 1] IN
         IF ch = Ch_LF
         THEN [lx EXCEPT !.i = @ + 1, !.line = @ + 1, !.col = 1]
         ELSE [lx EXCEPT !.i = @ + 1, !.col = @ + 1]

\* the rune advance() returns
advanceRet(lx) == IF lx.i >= lx.length THEN 0 ELSE lx.src[lx.i + 1]

\* lx.at is history only: the index at which the current attempt began.
add(lx, tt, lex, l, c) ==
    [lx EXCEPT !.tokens = Append(@, [type |-> tt, lexeme |-> lex, line |-> l, col |-> c]),
               !.tokAt = Append(@, lx.at)]

\* fmt.Sprintf("lexical error at %d:%d: %s", l, c, msg) is kept as its arguments;
\* msg is the tuple of the message format and its arguments.
errorAt(lx, l, c, msg) ==
    [lx EXCEPT !.errors = Append(@, [line |-> l, col |-> c, msg |-> msg]),
               !.errAt = Append(@, lx.at)]

\* ------------------------------------------------------------------ classifier
isIdentStart(r) == r = Ch_Underscore \/ IsLetter(r)

isIdentPart(r) == r = Ch_Underscore \/ IsLetter(r) \/ IsDigit(r)

\* ------------------------------------------------------------------ trivia
RECURSIVE lineComment(_, _)
\* for ch != '\n' && ch != 0 { ch = lx.advance() }
lineComment(lx, ch) ==
    IF ch # Ch_LF /\ ch # 0
    THEN lineComment(advance(lx), advanceRet(lx))
    ELSE lx

RECURSIVE blockComment(_, _, _, _)
\* for depth > 0 { ... }: the result is the Lexer and whether the function returned
blockComment(lx, depth, startLine, startCol) ==
    IF depth > 0
    THEN LET c == peek(lx, 0) IN
         IF c = 0
         THEN [lx |-> errorAt(lx, startLine, startCol, <<"unterminated block comment">>),
               returned |-> TRUE]
         ELSE IF c = Ch_Slash /\ peek(lx, 1) = Ch_Star
         THEN blockComment(advance(advance(lx)), depth + 1, startLine, startCol)
         ELSE IF c = Ch_Star /\ peek(lx, 1) = Ch_Slash
         THEN blockComment(advance(advance(lx)), depth - 1, startLine, startCol)
         ELSE blockComment(advance(lx), depth, startLine, startCol)
    ELSE [lx |-> lx, returned |-> FALSE]

RECURSIVE skipWSAndComments(_)
skipWSAndComments(lx) ==
    LET ch == peek(lx, 0) IN
    IF ch \in {Ch_SP, Ch_TAB, Ch_CR, Ch_LF}
    THEN skipWSAndComments(advance(lx))
    ELSE IF ch = Ch_Slash /\ peek(lx, 1) = Ch_Slash
    THEN skipWSAndComments(lineComment(lx, ch))
    ELSE IF ch = Ch_Slash /\ peek(lx, 1) = Ch_Star
    THEN LET open == [lx EXCEPT !.at = lx.i]
             b == blockComment(advance(advance(open)), 1, lx.line, lx.col)
         IN  IF b.returned THEN b.lx ELSE skipWSAndComments(b.lx)
    ELSE lx

\* ------------------------------------------------------------------ scanners
RECURSIVE identRun(_, _)
\* for lx.isIdentPart(lx.peek(0)) { b.WriteRune(lx.advance()) }
identRun(lx, b) ==
    IF isIdentPart(peek(lx, 0))
    THEN identRun(advance(lx), Append(b, advanceRet(lx)))
    ELSE [lx |-> lx, b |-> b]

\* mutant: the type-name table is probed with the lowercased text
scanIdentOrKeyword_LowTypeName(lx) ==
    LET l == lx.line
        c == lx.col
        r == identRun(lx, <<>>)
        lex == r.b
        low == ToLower(lex)
    IN  IF low \in DOMAIN keywords THEN add(r.lx, keywords[low], lex, l, c)
        ELSE IF low \in typeNames THEN add(r.lx, "TYPE_NAME", lex, l, c)
        ELSE add(r.lx, "IDENT", lex, l, c)

\* mutant: the lowercased text is emitted as the lexeme
scanIdentOrKeyword_LowLexeme(lx) ==
    LET l == lx.line
        c == lx.col
        r == identRun(lx, <<>>)
        lex == r.b
        low == ToLower(lex)
    IN  IF low \in DOMAIN keywords THEN add(r.lx, keywords[low], low, l, c)
        ELSE IF lex \in typeNames THEN add(r.lx, "TYPE_NAME", lex, l, c)
        ELSE add(r.lx, "IDENT", lex, l, c)

scanIdentOrKeyword(lx) ==
    LET l == lx.line
        c == lx.col
        r == identRun(lx, <<>>)
        lex == r.b
        low == ToLower(lex)
    IN  IF low \in DOMAIN keywords THEN add(r.lx, keywords[low], lex, l, c)
        ELSE IF lex \in typeNames THEN add(r.lx, "TYPE_NAME", lex, l, c)
        ELSE add(r.lx, "IDENT", lex, l, c)

bad ==
    <<<<Ch_Underscore, Ch_Dot>>, <<Ch_Dot, Ch_Underscore>>, <<Ch_e, Ch_Underscore>>, <<Ch_Underscore, Ch_e>>,
      <<Ch_E, Ch_Underscore>>, <<Ch_Underscore, Ch_E>>, <<Ch_x, Ch_Underscore>>, <<Ch_Underscore, Ch_x>>,
      <<Ch_X, Ch_Underscore>>, <<Ch_Underscore, Ch_X>>, <<Ch_b, Ch_Underscore>>, <<Ch_Underscore, Ch_b>>,
      <<Ch_B, Ch_Underscore>>, <<Ch_Underscore, Ch_B>>, <<Ch_o, Ch_Underscore>>, <<Ch_Underscore, Ch_o>>,
      <<Ch_O, Ch_Underscore>>, <<Ch_Underscore, Ch_O>>>>

\* variant: the list of bad pairs is not consulted
validUnderscores_NoPairs(s) ==
    IF s = <<>> THEN FALSE
    ELSE IF s[1] = Ch_Underscore \/ s[Len(s)] = Ch_Underscore THEN FALSE
    ELSE ~Contains(s, <<Ch_Underscore, Ch_Underscore>>)

validUnderscores(s) ==
    IF s = <<>> THEN FALSE
    ELSE IF s[1] = Ch_Underscore \/ s[Len(s)] = Ch_Underscore THEN FALSE
    ELSE IF Contains(s, <<Ch_Underscore, Ch_Underscore>>) THEN FALSE
    ELSE \A k \in 1..Len(bad) : ~Contains(s, bad[k])

\* the condition of the digit loop of a base-prefixed literal (line 281)
isBaseDigit(base, ch) ==
    \/ ch = Ch_Underscore
    \/ IsDigit(ch)
    \/ base \in {Ch_x, Ch_X} /\ (ch \in Ch_a..Ch_f \/ ch \in Ch_A..Ch_F)
    \/ base \in {Ch_b, Ch_B} /\ (ch = Ch_0 \/ ch = Ch_1)
    \/ base \in {Ch_o, Ch_O} /\ ch \in Ch_0..Ch_7

RECURSIVE baseDigits(_, _, _)
baseDigits(lx, base, count) ==
    IF isBaseDigit(base, peek(lx, 0))
    THEN baseDigits(advance(lx), base, count + 1)
    ELSE [lx |-> lx, count |-> count]

RECURSIVE digitRun(_)
\* for unicode.IsDigit(lx.peek(0)) || lx.peek(0) == '_' { lx.advance() }
digitRun(lx) ==
    IF IsDigit(peek(lx, 0)) \/ peek(lx, 0) = Ch_Underscore
    THEN digitRun(advance(lx))
    ELSE lx

\* string(lx.src[from:to])
slice(lx, from, to) == SubSeq(lx.src, from + 1, to)

\* variant: one message for every base
baseMsg_HexOnly(base) == <<"invalid hex literal">>

baseMsg(base) ==
    IF base \in {Ch_x, Ch_X} THEN <<"invalid hex literal">>
    ELSE IF base \in {Ch_b, Ch_B} THEN <<"invalid binary literal">>
    ELSE IF base \in {Ch_o, Ch_O} THEN <<"invalid octal literal">>
    ELSE <<"invalid numeric literal">>

scanNumberPrefixed(lx, l, c, start) ==
    LET base == peek(lx, 1)
        r == baseDigits(advance(advance(lx)), base, 0)
        body == slice(r.lx, start + 2, r.lx.i)
    IN  IF r.count = 0 \/ ~validUnderscores(body)
        THEN errorAt(r.lx, l, c, baseMsg(base))
        ELSE add(r.lx, "INT_LIT", slice(r.lx, start, r.lx.i), l, c)

\* variant: the sign of the exponent is not consumed
scanNumberDecimal_NoSign(lx, l, c, start) ==
    LET a == digitRun(lx)
        frac == peek(a, 0) = Ch_Dot /\ IsDigit(peek(a, 1))
        f == IF frac THEN digitRun(advance(a)) ELSE a
        hasExp == peek(f, 0) = Ch_e \/ peek(f, 0) = Ch_E
        e1 == advance(f)
        isFloat == frac \/ hasExp
    IN  IF hasExp /\ ~IsDigit(peek(e1, 0))
        THEN errorAt(e1, l, c, <<"invalid float exponent">>)
        ELSE LET z == IF hasExp THEN digitRun(e1) ELSE f
                 lex == slice(z, start, z.i)
             IN  IF ~validUnderscores(lex)
                 THEN errorAt(z, l, c, <<"illegal underscore placement in number">>)
                 ELSE IF isFloat \/ ContainsAny(lex, {Ch_Dot, Ch_e, Ch_E})
                 THEN add(z, "FLOAT_LIT", lex, l, c)
                 ELSE add(z, "INT_LIT", lex, l, c)

scanNumberDecimal(lx, l, c, start) ==
    LET a == digitRun(lx)
        frac == peek(a, 0) = Ch_Dot /\ IsDigit(peek(a, 1))
        f == IF frac THEN digitRun(advance(a)) ELSE a
        hasExp == peek(f, 0) = Ch_e \/ peek(f, 0) = Ch_E
        e1 == advance(f)
        e2 == IF peek(e1, 0) = Ch_Plus \/ peek(e1, 0) = Ch_Minus THEN advance(e1) ELSE e1
        isFloat == frac \/ hasExp
    IN  IF hasExp /\ ~IsDigit(peek(e2, 0))
        THEN errorAt(e2, l, c, <<"invalid float exponent">>)
        ELSE LET z == IF hasExp THEN digitRun(e2) ELSE f
                 lex == slice(z, start, z.i)
             IN  IF ~validUnderscores(lex)
                 THEN errorAt(z, l, c, <<"illegal underscore placement in number">>)
                 ELSE IF isFloat \/ ContainsAny(lex, {Ch_Dot, Ch_e, Ch_E})
                 THEN add(z, "FLOAT_LIT", lex, l, c)
                 ELSE add(z, "INT_LIT", lex, l, c)

scanNumber(lx) ==
    LET l == lx.line
        c == lx.col
        start == lx.i
    IN  IF peek(lx, 0) = Ch_0 /\ peek(lx, 1) \in {Ch_x, Ch_X, Ch_b, Ch_B, Ch_o, Ch_O}
        THEN scanNumberPrefixed(lx, l, c, start)
        ELSE scanNumberDecimal(lx, l, c, start)

RECURSIVE stringBody(_, _, _, _)
\* the for loop of scanString; b is the strings.Builder, a run of at least two
\* runes being at least two bytes long
stringBody(lx, b, l, c) ==
    LET ch == peek(lx, 0) IN
    IF ch = 0 \/ ch = Ch_LF
    THEN errorAt(lx, l, c, <<"unterminated string literal">>)
    ELSE IF ch = Ch_BSL
    THEN LET x == advance(lx)
             b1 == Append(b, advanceRet(lx))
         IN  IF peek(x, 0) = 0 \/ peek(x, 0) = Ch_LF
             THEN errorAt(x, l, c, <<"unterminated string escape">>)
             ELSE stringBody(advance(x), Append(b1, advanceRet(x)), l, c)
    ELSE LET x == advance(lx)
             b1 == Append(b, advanceRet(lx))
         IN  IF Len(b1) >= 2 /\ b1[Len(b1)] = Ch_DQ /\ peek(x, -1) # Ch_BSL
             THEN add(x, "STRING_LIT", b1, l, c)
             ELSE IF peek(x, 0) = Ch_DQ
             THEN add(advance(x), "STRING_LIT", Append(b1, advanceRet(x)), l, c)
             ELSE stringBody(x, b1, l, c)

scanString(lx) ==
    stringBody(advance(lx), <<advanceRet(lx)>>, lx.line, lx.col)

RECURSIVE rawBody_NoClose(_, _, _, _)
\* mutant: the closing back quote is consumed but left out of the lexeme
rawBody_NoClose(lx, b, l, c) ==
    LET ch == peek(lx, 0) IN
    IF ch = 0
    THEN errorAt(lx, l, c, <<"unterminated raw string">>)
    ELSE LET x == advance(lx)
             b1 == Append(b, advanceRet(lx))
         IN  IF ch = Ch_BQ
             THEN add(x, "STRING_LIT", b, l, c)
             ELSE rawBody_NoClose(x, b1, l, c)

RECURSIVE rawBody(_, _, _, _)
rawBody(lx, b, l, c) ==
    LET ch == peek(lx, 0) IN
    IF ch = 0
    THEN errorAt(lx, l, c, <<"unterminated raw string">>)
    ELSE LET x == advance(lx)
             b1 == Append(b, advanceRet(lx))
         IN  IF ch = Ch_BQ
             THEN add(x, "STRING_LIT", b1, l, c)
             ELSE rawBody(x, b1, l, c)

\* mutant: the position is taken after the opening back quote was consumed
scanRawString_PosAfter(lx) ==
    rawBody(advance(lx), <<advanceRet(lx)>>, advance(lx).line, advance(lx).col)

scanRawString(lx) ==
    rawBody(advance(lx), <<advanceRet(lx)>>, lx.line, lx.col)

\* the tail of scanChar, after the character or escape was consumed
\* variant: no return after the error
charClose_NoReturn(lx, b, l, c) ==
    IF peek(lx, 0) # Ch_SQ
    THEN add(errorAt(lx, l, c, <<"unterminated char literal">>), "CHAR_LIT", b, l, c)
    ELSE add(advance(lx), "CHAR_LIT", Append(b, advanceRet(lx)), l, c)

charClose(lx, b, l, c) ==
    IF peek(lx, 0) # Ch_SQ
    THEN errorAt(lx, l, c, <<"unterminated char literal">>)
    ELSE add(advance(lx), "CHAR_LIT", Append(b, advanceRet(lx)), l, c)

scanChar(lx) ==
    LET l == lx.line
        c == lx.col
        q == advance(lx)
        b == <<advanceRet(lx)>>
        ch == peek(q, 0)
    IN  IF ch = Ch_BSL
        THEN LET x == advance(q)
                 b1 == Append(b, advanceRet(q))
             IN  IF peek(x, 0) = 0 \/ peek(x, 0) = Ch_LF
                 THEN errorAt(x, l, c, <<"unterminated char escape">>)
                 ELSE charClose(advance(x), Append(b1, advanceRet(x)), l, c)
        ELSE IF ch = 0 \/ ch = Ch_LF \/ ch = Ch_SQ
        THEN errorAt(q, l, c, <<"empty or invalid char literal">>)
        ELSE charClose(advance(q), Append(b, advanceRet(q)), l, c)

\* ------------------------------------------------------------------ symbols
\* mutant: "<<" is emitted after only one '<' was consumed
caseLess_ShortAdvance(lx, l, c) ==
    IF peek(lx, 1) = Ch_Minus
    THEN add(advance(advance(lx)), "CH_SEND", <<Ch_Lt, Ch_Minus>>, l, c)
    ELSE IF peek(lx, 1) = Ch_Eq
    THEN add(advance(advance(lx)), "LE", <<Ch_Lt, Ch_Eq>>, l, c)
    ELSE IF peek(lx, 1) = Ch_Lt
    THEN IF peek(lx, 2) = Ch_Eq
         THEN add(advance(advance(advance(lx))), "SHLEQ", <<Ch_Lt, Ch_Lt, Ch_Eq>>, l, c)
         ELSE add(advance(lx), "SHL", <<Ch_Lt, Ch_Lt>>, l, c)
    ELSE add(advance(lx), "LT", <<Ch_Lt>>, l, c)

\* case '<'
caseLess(lx, l, c) ==
    IF peek(lx, 1) = Ch_Minus
    THEN add(advance(advance(lx)), "CH_SEND", <<Ch_Lt, Ch_Minus>>, l, c)
    ELSE IF peek(lx, 1) = Ch_Eq
    THEN add(advance(advance(lx)), "LE", <<Ch_Lt, Ch_Eq>>, l, c)
    ELSE IF peek(lx, 1) = Ch_Lt
    THEN IF peek(lx, 2) = Ch_Eq
         THEN add(advance(advance(advance(lx))), "SHLEQ", <<Ch_Lt, Ch_Lt, Ch_Eq>>, l, c)
         ELSE add(advance(advance(lx)), "SHL", <<Ch_Lt, Ch_Lt>>, l, c)
    ELSE add(advance(lx), "LT", <<Ch_Lt>>, l, c)

\* mutant: '>' followed by '>' is always SHR, ">>=" is never looked for
caseGreater_NoThirdLook(lx, l, c) ==
    IF peek(lx, 1) = Ch_Eq
    THEN add(advance(advance(lx)), "GE", <<Ch_Gt, Ch_Eq>>, l, c)
    ELSE IF peek(lx, 1) = Ch_Gt
    THEN add(advance(advance(lx)), "SHR", <<Ch_Gt, Ch_Gt>>, l, c)
    ELSE add(advance(lx), "GT", <<Ch_Gt>>, l, c)

\* case '>'
caseGreater(lx, l, c) ==
    IF peek(lx, 1) = Ch_Eq
    THEN add(advance(advance(lx)), "GE", <<Ch_Gt, Ch_Eq>>, l, c)
    ELSE IF peek(lx, 1) = Ch_Gt
    THEN IF peek(lx, 2) = Ch_Eq
         THEN add(advance(advance(advance(lx))), "SHREQ", <<Ch_Gt, Ch_Gt, Ch_Eq>>, l, c)
         ELSE add(advance(advance(lx)), "SHR", <<Ch_Gt, Ch_Gt>>, l, c)
    ELSE add(advance(lx), "GT", <<Ch_Gt>>, l, c)

\* case '&'
caseAmp(lx, l, c) ==
    IF peek(lx, 1) = Ch_Amp
    THEN add(advance(advance(lx)), "ANDAND", <<Ch_Amp, Ch_Amp>>, l, c)
    ELSE IF peek(lx, 1) = Ch_Eq
    THEN add(advance(advance(lx)), "ANDEQ", <<Ch_Amp, Ch_Eq>>, l, c)
    ELSE add(advance(lx), "BAND", <<Ch_Amp>>, l, c)

\* case '|'
casePipe(lx, l, c) ==
    IF peek(lx, 1) = Ch_Pipe
    THEN add(advance(advance(lx)), "OROR", <<Ch_Pipe, Ch_Pipe>>, l, c)
    ELSE IF peek(lx, 1) = Ch_Eq
    THEN add(advance(advance(lx)), "OREQ", <<Ch_Pipe, Ch_Eq>>, l, c)
    ELSE add(advance(lx), "BOR", <<Ch_Pipe>>, l, c)

\* mutant: the default case records the error and forgets to advance
invalidCharacter_NoAdvance(lx, ch, l, c) ==
    errorAt(lx, l, c, <<"invalid character %q", ch>>)

\* default: of the switch
invalidCharacter(lx, ch, l, c) ==
    advance(errorAt(lx, l, c, <<"invalid character %q", ch>>))

\* switch ch { ... } of nextToken
scanSymbol(lx, ch, l, c) ==
    CASE ch = Ch_LParen -> add(advance(lx), "LPAREN", <<Ch_LParen>>, l, c)
      [] ch = Ch_RParen -> add(advance(lx), "RPAREN", <<Ch_RParen>>, l, c)
      [] ch = Ch_LBrace -> add(advance(lx), "LBRACE", <<Ch_LBrace>>, l, c)
      [] ch = Ch_RBrace -> add(advance(lx), "RBRACE", <<Ch_RBrace>>, l, c)
      [] ch = Ch_LBrack -> add(advance(lx), "LBRACK", <<Ch_LBrack>>, l, c)
      [] ch = Ch_RBrack -> add(advance(lx), "RBRACK", <<Ch_RBrack>>, l, c)
      [] ch = Ch_Comma -> add(advance(lx), "COMMA", <<Ch_Comma>>, l, c)
      [] ch = Ch_Semi -> add(advance(lx), "SEMI", <<Ch_Semi>>, l, c)
      [] ch = Ch_Colon -> IF peek(lx, 1) = Ch_Eq
             THEN add(advance(advance(lx)), "DECL", <<Ch_Colon, Ch_Eq>>, l, c)
             ELSE add(advance(lx), "COLON", <<Ch_Colon>>, l, c)
      [] ch = Ch_Dot -> add(advance(lx), "DOT", <<Ch_Dot>>, l, c)
      [] ch = Ch_Plus -> IF peek(lx, 1) = Ch_Eq
             THEN add(advance(advance(lx)), "ADDEQ", <<Ch_Plus, Ch_Eq>>, l, c)
             ELSE add(advance(lx), "PLUS", <<Ch_Plus>>, l, c)
      [] ch = Ch_Minus -> IF peek(lx, 1) = Ch_Eq
             THEN add(advance(advance(lx)), "SUBEQ", <<Ch_Minus, Ch_Eq>>, l, c)
             ELSE add(advance(lx), "MINUS", <<Ch_Minus>>, l, c)
      [] ch = Ch_Star -> IF peek(lx, 1) = Ch_Eq
             THEN add(advance(advance(lx)), "MULEQ", <<Ch_Star, Ch_Eq>>, l, c)
             ELSE add(advance(lx), "STAR", <<Ch_Star>>, l, c)
      [] ch = Ch_Slash -> IF peek(lx, 1) = Ch_Eq
             THEN add(advance(advance(lx)), "DIVEQ", <<Ch_Slash, Ch_Eq>>, l, c)
             ELSE add(advance(lx), "SLASH", <<Ch_Slash>>, l, c)
      [] ch = Ch_Percent -> IF peek(lx, 1) = Ch_Eq
             THEN add(advance(advance(lx)), "MODEQ", <<Ch_Percent, Ch_Eq>>, l, c)
             ELSE add(advance(lx), "PERCENT", <<Ch_Percent>>, l, c)
      [] ch = Ch_Lt -> caseLess(lx, l, c)
      [] ch = Ch_Gt -> caseGreater(lx, l, c)
      [] ch = Ch_Eq -> IF peek(lx, 1) = Ch_Eq
             THEN add(advance(advance(lx)), "EQ", <<Ch_Eq, Ch_Eq>>, l, c)
             ELSE add(advance(lx), "ASSIGN", <<Ch_Eq>>, l, c)
      [] ch = Ch_Bang -> IF peek(lx, 1) = Ch_Eq
             THEN add(advance(advance(lx)), "NE", <<Ch_Bang, Ch_Eq>>, l, c)
             ELSE add(advance(lx), "BANG", <<Ch_Bang>>, l, c)
      [] ch = Ch_Amp -> caseAmp(lx, l, c)
      [] ch = Ch_Pipe -> casePipe(lx, l, c)
      [] ch = Ch_Caret -> IF peek(lx, 1) = Ch_Eq
             THEN add(advance(advance(lx)), "XOREQ", <<Ch_Caret, Ch_Eq>>, l, c)
             ELSE add(advance(lx), "BXOR", <<Ch_Caret>>, l, c)
      [] OTHER -> invalidCharacter(lx, ch, l, c)

\* ------------------------------------------------------------------ driver
\* one call of nextToken: the Lexer after it and the value it returns
nextToken(lx) ==
    LET s == skipWSAndComments(lx)
        ch == peek(s, 0)
        t == [s EXCEPT !.at = s.i]
        l == t.line
        c == t.col
    IN  IF ch = 0 THEN [lx |-> s, ret |-> FALSE]
        ELSE IF isIdentStart(ch) THEN [lx |-> scanIdentOrKeyword(t), ret |-> TRUE]
        ELSE IF IsDigit(ch) THEN [lx |-> scanNumber(t), ret |-> TRUE]
        ELSE IF ch = Ch_DQ THEN [lx |-> scanString(t), ret |-> TRUE]
        ELSE IF ch = Ch_BQ THEN [lx |-> scanRawString(t), ret |-> TRUE]
        ELSE IF ch = Ch_SQ THEN [lx |-> scanChar(t), ret |-> TRUE]
        ELSE [lx |-> scanSymbol(t, ch, l, c), ret |-> TRUE]

RECURSIVE LexAll(_)
\* for lx.nextToken() {}; return lx.tokens, lx.errors
LexAll(lx) ==
    LET r == nextToken(lx) IN
    IF r.ret THEN LexAll(r.lx) ELSE r.lx

\* ------------------------------------------------------------------ inputs
\* Bounds on the length of the inputs, one per family of inputs.
MaxLenAll == 2

MaxLenWord == 5

MaxLenSym == 3

MaxLenNum == 4

MaxLenQuote == 4

MaxLenComment == 5

MaxLenExp == 4

MaxNestChunks == 5

\* every class of rune the lexer distinguishes
AllRunes ==
    {Ch_NUL, Ch_TAB, Ch_LF, Ch_CR, Ch_SP, Ch_DQ, Ch_SQ, Ch_BSL, Ch_BQ,
     Ch_eacute, Ch_arabic1, Ch_i, Ch_I, Ch_f, Ch_j, Ch_b, Ch_x, Ch_o, Ch_e,
     Ch_E, Ch_0, Ch_1, Ch_7, Ch_8, Ch_9, Ch_Underscore, Ch_At, Ch_Hash,
     Ch_LParen, Ch_RParen, Ch_LBrace, Ch_RBrace, Ch_LBrack, Ch_RBrack,
     Ch_Comma, Ch_Semi, Ch_Colon, Ch_Dot, Ch_Plus, Ch_Minus, Ch_Star,
     Ch_Slash, Ch_Percent, Ch_Lt, Ch_Gt, Ch_Eq, Ch_Bang, Ch_Amp, Ch_Pipe,
     Ch_Caret}

WordRunes == {Ch_i, Ch_I, Ch_f, Ch_F, Ch_8, Ch_SP}

SymRunes == {Ch_Lt, Ch_Gt, Ch_Eq, Ch_Minus, Ch_Amp, Ch_Pipe, Ch_Bang, Ch_Colon, Ch_Plus, Ch_Star, Ch_Slash, Ch_Percent, Ch_Caret}

NumRunes == {Ch_0, Ch_1, Ch_9, Ch_b, Ch_x, Ch_o, Ch_Underscore, Ch_Dot}

QuoteRunes == {Ch_DQ, Ch_BSL, Ch_SQ, Ch_BQ, Ch_LF, Ch_j, Ch_NUL}

CommentRunes == {Ch_Slash, Ch_Star, Ch_LF, Ch_j, Ch_NUL}

\* decimal and float literals with exponents
ExpRunes == {Ch_1, Ch_e, Ch_E, Ch_Plus, Ch_Underscore, Ch_Dot}

\* nested block comments are built from whole delimiters
NestChunks == {<<Ch_Slash, Ch_Star>>, <<Ch_Star, Ch_Slash>>, <<Ch_j>>, <<Ch_LF>>, <<Ch_NUL>>}

SeqsUpTo(A, n) == UNION {[1..k -> A] : k \in 0..n}

RECURSIVE ConcatAll(_)
ConcatAll(ss) == IF ss = <<>> THEN <<>> ELSE Head(ss) \o ConcatAll(Tail(ss))

Inputs ==
    SeqsUpTo(AllRunes, MaxLenAll) \cup SeqsUpTo(WordRunes, MaxLenWord)
    \cup SeqsUpTo(SymRunes, MaxLenSym) \cup SeqsUpTo(NumRunes, MaxLenNum)
    \cup SeqsUpTo(QuoteRunes, MaxLenQuote) \cup SeqsUpTo(CommentRunes, MaxLenComment)
    \cup SeqsUpTo(ExpRunes, MaxLenExp)
    \cup {ConcatAll(cs) : cs \in SeqsUpTo(NestChunks, MaxNestChunks)}

\* ------------------------------------------------------------------ state machine
\* the Lexer object held in the variables
Lx ==
    [src |-> src, length |-> length, i |-> i, line |-> line, col |-> col,
     tokens |-> tokens, errors |-> errors,
     at |-> i, tokAt |-> tokAt, errAt |-> errAt]

\* the pieces one call of nextToken consumes, in source order: the trivia it
\* skipped, then the lexeme of the token it emitted or the text of the attempt
\* that failed
NewPieces(r) ==
    LET s == skipWSAndComments(Lx)
        triv == IF s.i > i
                THEN <<[kind |-> "trivia", text |-> slice(Lx, i, s.i)]>>
                ELSE <<>>
        item == IF ~r.ret THEN <<>>
                ELSE IF Len(r.lx.tokens) > Len(tokens)
                THEN <<[kind |-> "token", text |-> r.lx.tokens[Len(r.lx.tokens)].lexeme]>>
                ELSE <<[kind |-> "error", text |-> slice(Lx, s.i, r.lx.i)]>>
    IN  triv \o item

Store(r) ==
    /\ i' = r.lx.i
    /\ line' = r.lx.line
    /\ col' = r.lx.col
    /\ tokens' = r.lx.tokens
    /\ errors' = r.lx.errors
    /\ tokAt' = r.lx.tokAt
    /\ errAt' = r.lx.errAt
    /\ pieces' = pieces \o NewPieces(r)
    /\ UNCHANGED <<src, length>>

Init ==
    /\ src \in Inputs
    /\ length = NewLexer(src).length
    /\ i = NewLexer(src).i
    /\ line = NewLexer(src).line
    /\ col = NewLexer(src).col
    /\ tokens = NewLexer(src).tokens
    /\ errors = NewLexer(src).errors
    /\ pc = "lexing"
    /\ tokAt = <<>>
    /\ errAt = <<>>
    /\ pieces = <<>>

\* one iteration of the loop of LexAll: nextToken returned true
LexAllStep ==
    /\ pc = "lexing"
    /\ LET r == nextToken(Lx) IN
       /\ r.ret
       /\ Store(r)
    /\ pc' = "lexing"

\* the last call of nextToken, which returns false, and the return of LexAll
LexAllReturn ==
    /\ pc = "lexing"
    /\ LET r == nextToken(Lx) IN
       /\ ~r.ret
       /\ Store(r)
    /\ pc' = "done"

Next == LexAllStep \/ LexAllReturn

Spec == Init /\ [][Next]_vars

\* ------------------------------------------------------------------ properties
\* Positions by definition, independent of the position tracker: p is a
\* 0-based index into s.
LineOf(s, p) == 1 + Cardinality({k \in 1..p : s[k] = Ch_LF})

ColOf(s, p) ==
    LET nls == {k \in 1..p : s[k] = Ch_LF}
        lastNL == IF nls = {} THEN 0 ELSE CHOOSE k \in nls : \A m \in nls : m <= k
    IN  1 + (p - lastNL)

\* the cursor after the trivia skipping of the next call of nextToken
AfterTrivia == skipWSAndComments(Lx)

HasError(text) == \E k \in 1..Len(errors) : errors[k].msg[1] = text

\* C1: for every finite input LexAll terminates, and every call of nextToken
\* that returns true leaves the cursor strictly greater than it found it, on
\* the error paths as well.  Termination is stated by its variant: every
\* iteration that stays in the loop raises the cursor, and the cursor never
\* exceeds the input length, so the loop runs at most length + 1 times.
C1_Progress ==
    [][/\ pc' = "lexing" => i' > i
       /\ i' <= length]_vars

\* a finished run in which a failed attempt was followed by a token
C1_Witness ==
    /\ pc = "done"
    /\ \E k \in 1..Len(pieces) - 1 :
          pieces[k].kind = "error" /\ pieces[k + 1].kind = "token"

\* C2: the driver signals "no more tokens" only at the true end of the input:
\* when LexAll returns, the cursor equals the input length, U+0000 included.
C2_StopsOnlyAtEnd == pc = "done" => i = length

\* the first characters of the fixed symbols
SymbolFirst == {m[1] : m \in DOMAIN symbols}

\* a rune that starts no identifier, number, literal or symbol
InvalidRune(r) ==
    /\ ~isIdentStart(r)
    /\ ~IsDigit(r)
    /\ r \notin {Ch_DQ, Ch_BQ, Ch_SQ}
    /\ r \notin SymbolFirst

\* C3: a code point that, after trivia skipping, starts no identifier, number,
\* literal or symbol makes nextToken append exactly one error "invalid
\* character" with that code point's line and column and no token, advance the
\* cursor by exactly one and go on scanning.
C3_InvalidCharacter ==
    [][LET s == AfterTrivia
           p == s.i
       IN  (pc = "lexing" /\ p < length /\ InvalidRune(src[p + 1])) =>
               /\ errors' = Append(s.errors,
                                   [line |-> LineOf(src, p), col |-> ColOf(src, p),
                                    msg |-> <<"invalid character %q", src[p + 1]>>])
               /\ tokens' = tokens
               /\ i' = p + 1
               /\ pc' = "lexing"]_vars

\* C4: every token and every error carries the line and column of the first
\* code point of its lexeme or failed attempt (of the opening '/' for an
\* unterminated block comment), counted from the input itself, never the
\* position of the cursor after consumption, also across several lines.
C4_PositionOfFirstCodePoint ==
    /\ \A k \in 1..Len(tokens) :
          /\ tokens[k].line = LineOf(src, tokAt[k])
          /\ tokens[k].col = ColOf(src, tokAt[k])
          /\ tokens[k].lexeme[1] = src[tokAt[k] + 1]
    /\ \A k \in 1..Len(errors) :
          /\ errors[k].line = LineOf(src, errAt[k])
          /\ errors[k].col = ColOf(src, errAt[k])
          /\ errors[k].msg = <<"unterminated block comment">> =>
                src[errAt[k] + 1] = Ch_Slash /\ src[errAt[k] + 2] = Ch_Star

\* a raw string that spans two lines, followed by a token on the second line
C4_Witness ==
    \E k \in 1..Len(tokens) - 1 :
        /\ tokens[k].type = "STRING_LIT"
        /\ tokens[k].lexeme[1] = Ch_BQ
        /\ Ch_LF \in {tokens[k].lexeme[j] : j \in 1..Len(tokens[k].lexeme)}
        /\ tokens[k + 1].line = 2
        /\ tokens[k + 1].col > 1

\* C5: tokens appear in source order and their spans never overlap: a token
\* starts at or after the end of the one before it, and each lexeme equals
\* the source text of its span.
C5_OrderedDisjointSpans ==
    /\ \A k \in 1..Len(tokens) :
          /\ tokAt[k] + Len(tokens[k].lexeme) <= i
          /\ tokens[k].lexeme = SubSeq(src, tokAt[k] + 1, tokAt[k] + Len(tokens[k].lexeme))
    /\ \A k \in 1..Len(tokens) - 1 :
          tokAt[k + 1] >= tokAt[k] + Len(tokens[k].lexeme)

\* two multi-character tokens, the second right after the first
C5_Witness ==
    /\ Len(tokens) >= 2
    /\ Len(tokens[1].lexeme) >= 2
    /\ tokAt[2] = tokAt[1] + Len(tokens[1].lexeme)

RECURSIVE Flatten(_)
Flatten(ps) == IF ps = <<>> THEN <<>> ELSE Head(ps).text \o Flatten(Tail(ps))

\* C6 as claimed: for every input the lexemes of all tokens and all skipped
\* trivia, concatenated in source order, reproduce the input exactly.
C6_RoundTrip ==
    pc = "done" =>
        Flatten(SelectSeq(pieces, LAMBDA q : q.kind \in {"token", "trivia"})) = src

\* C6 amended: the lexemes of all tokens, all skipped trivia and the text
\* consumed by every failed attempt, concatenated in source order, reproduce
\* exactly the input up to the cursor.
C6_RoundTripWithFailedAttempts == Flatten(pieces) = SubSeq(src, 1, i)

\* a finished run whose pieces are of all three kinds
C6_Witness ==
    /\ pc = "done"
    /\ {"trivia", "token", "error"} \subseteq {pieces[k].kind : k \in 1..Len(pieces)}

RECURSIVE Join(_)
\* the lexemes of the tokens, joined with single spaces
Join(toks) ==
    IF toks = <<>> THEN <<>>
    ELSE IF Len(toks) = 1 THEN toks[1].lexeme
    ELSE toks[1].lexeme \o <<Ch_SP>> \o Join(Tail(toks))

\* C7: joining the lexemes of the tokens LexAll returned with single spaces
\* and lexing that text again yields the same sequence of token kinds and
\* lexemes, and no error.
C7_Idempotent ==
    pc = "done" =>
        LET again == LexAll(NewLexer(Join(tokens))) IN
        /\ again.errors = <<>>
        /\ again.i = again.length
        /\ Len(again.tokens) = Len(tokens)
        /\ \A k \in 1..Len(tokens) :
              /\ again.tokens[k].type = tokens[k].type
              /\ again.tokens[k].lexeme = tokens[k].lexeme

\* a finished run with an error, trivia and at least two tokens, one a literal
C7_Witness ==
    /\ pc = "done"
    /\ errors # <<>>
    /\ Len(tokens) >= 2
    /\ \E k \in 1..Len(tokens) : tokens[k].type \in {"STRING_LIT", "CHAR_LIT", "INT_LIT"}

\* the longest run of identifier-continue runes of src that starts at index p
IdentRunAt(p) ==
    LET n == CHOOSE n \in 1..(length - p) :
                 /\ \A k \in 1..n : isIdentPart(src[p + k])
                 /\ p + n = length \/ ~isIdentPart(src[p + n + 1])
    IN  SubSeq(src, p + 1, p + n)

\* the kind C8 gives a word
WordKind(w) ==
    IF ToLower(w) \in DOMAIN keywords THEN keywords[ToLower(w)]
    ELSE IF w \in typeNames THEN "TYPE_NAME"
    ELSE "IDENT"

\* C8: for a maximal run w of identifier-continue code points that begins
\* with an identifier-start code point, scanIdentOrKeyword emits exactly one
\* token with lexeme w in its original casing and kind: the keyword of
\* lowercase(w) if there is one (IF, If, iF and if are all KW_IF), else
\* TYPE_NAME if w itself is a type name (i8 is, I8 is an IDENT), else IDENT;
\* it records no error.
C8_IdentOrKeyword ==
    [][LET s == AfterTrivia
           p == s.i
       IN  (pc = "lexing" /\ p < length /\ isIdentStart(src[p + 1])) =>
               LET w == IdentRunAt(p) IN
               /\ tokens' = Append(tokens,
                                   [type |-> WordKind(w), lexeme |-> w,
                                    line |-> LineOf(src, p), col |-> ColOf(src, p)])
               /\ errors' = errors
               /\ i' = p + Len(w)
               /\ w \in {<<Ch_i, Ch_f>>, <<Ch_I, Ch_F>>, <<Ch_I, Ch_f>>, <<Ch_i, Ch_F>>}
                     => tokens'[Len(tokens')].type = "KW_IF"
               /\ w = <<Ch_i, Ch_8>> => tokens'[Len(tokens')].type = "TYPE_NAME"
               /\ w = <<Ch_I, Ch_8>> => tokens'[Len(tokens')].type = "IDENT"
               /\ w = <<Ch_i, Ch_f, Ch_f>> => tokens'[Len(tokens')].type = "IDENT"]_vars

\* an upper-case keyword, a type name and a word that is a type name in lower
\* case only have all been scanned
C8_Witness ==
    \E a, b \in 1..Len(tokens) :
        /\ tokens[a].type = "KW_IF" /\ tokens[a].lexeme = <<Ch_I, Ch_F>>
        /\ tokens[b].type = "IDENT" /\ tokens[b].lexeme = <<Ch_I, Ch_8>>

\* the longest entry of the symbol table that is a prefix of src from index p
LongestSymbolAt(p) ==
    LET fits == {m \in DOMAIN symbols :
                    /\ p + Len(m) <= length
                    /\ SubSeq(src, p + 1, p + Len(m)) = m}
    IN  CHOOSE m \in fits : \A o \in fits : Len(o) <= Len(m)

\* C9: maximal munch: whenever the symbol scanner is dispatched on the first
\* character of a symbol, it emits exactly one token, the longest entry of the
\* symbol table that is a prefix of the remaining input ("<<=" is SHLEQ, "<-"
\* is CH_SEND, ">>=" is SHREQ, "<=" is LE), and the cursor advances by exactly
\* the length of that entry.
C9_MaximalMunch ==
    [][LET s == AfterTrivia
           p == s.i
       IN  (pc = "lexing" /\ p < length /\ src[p + 1] \in SymbolFirst) =>
               LET m == LongestSymbolAt(p) IN
               /\ tokens' = Append(tokens,
                                   [type |-> symbols[m], lexeme |-> m,
                                    line |-> LineOf(src, p), col |-> ColOf(src, p)])
               /\ errors' = errors
               /\ i' = p + Len(m)
               /\ m = <<Ch_Lt, Ch_Lt, Ch_Eq>> => tokens'[Len(tokens')].type = "SHLEQ"
               /\ m = <<Ch_Gt, Ch_Gt, Ch_Eq>> => tokens'[Len(tokens')].type = "SHREQ"
               /\ m = <<Ch_Lt, Ch_Minus>> => tokens'[Len(tokens')].type = "CH_SEND"
               /\ m = <<Ch_Lt, Ch_Eq>> => tokens'[Len(tokens')].type = "LE"]_vars

\* "<<=" was scanned as the single token SHLEQ
C9_Witness ==
    /\ Len(tokens) = 1
    /\ tokens[1].type = "SHLEQ"
    /\ tokens[1].lexeme = <<Ch_Lt, Ch_Lt, Ch_Eq>>
    /\ i = 3

\* the digits of a base: the runes C10 allows after the prefix
BaseDigits(base) ==
    IF base \in {Ch_b, Ch_B} THEN {Ch_0, Ch_1}
    ELSE IF base \in {Ch_o, Ch_O} THEN Ch_0..Ch_7
    ELSE (Ch_0..Ch_9) \cup (Ch_a..Ch_f) \cup (Ch_A..Ch_F)

BasePrefixed(lex) ==
    /\ Len(lex) >= 2
    /\ lex[1] = Ch_0
    /\ lex[2] \in {Ch_x, Ch_X, Ch_b, Ch_B, Ch_o, Ch_O}

\* C10: after a base prefix the scanner consumes only digits valid for that
\* base and underscores, so every base-prefixed INT_LIT holds only
\* valid-for-base digits after its prefix: a digit invalid for the base ends
\* the literal.
C10_ValidForBaseDigits ==
    \A k \in 1..Len(tokens) :
        (tokens[k].type = "INT_LIT" /\ BasePrefixed(tokens[k].lexeme)) =>
            \A j \in 3..Len(tokens[k].lexeme) :
                tokens[k].lexeme[j] \in BaseDigits(tokens[k].lexeme[2]) \cup {Ch_Underscore}

\* the end of the run the digit loop of a base-prefixed literal consumes from
\* index q on
RECURSIVE PrefixRunEnd(_, _, _)
PrefixRunEnd(s, base, q) ==
    IF q < Len(s) /\ isBaseDigit(base, s[q + 1])
    THEN PrefixRunEnd(s, base, q + 1)
    ELSE q

BaseMessage(base) ==
    IF base \in {Ch_x, Ch_X} THEN <<"invalid hex literal">>
    ELSE IF base \in {Ch_b, Ch_B} THEN <<"invalid binary literal">>
    ELSE <<"invalid octal literal">>

\* the next item starts with '0' and a base letter
AtBasePrefix(p) ==
    /\ pc = "lexing"
    /\ p + 1 < length
    /\ src[p + 1] = Ch_0
    /\ src[p + 2] \in {Ch_x, Ch_X, Ch_b, Ch_B, Ch_o, Ch_O}

\* C11: when a base prefix is followed by zero digits, or the consumed run
\* fails underscore validation, the call records exactly one error at the
\* start of the literal with the message of that base, emits no token, and
\* leaves the cursor after the prefix and the consumed run.
C11_InvalidBaseLiteral ==
    [][LET p == AfterTrivia.i
           q == PrefixRunEnd(src, src[p + 2], p + 2)
       IN  (AtBasePrefix(p) /\ (q = p + 2 \/ ~validUnderscores(SubSeq(src, p + 3, q))))
           => /\ errors' = Append(errors, [line |-> LineOf(src, p), col |-> ColOf(src, p),
                                           msg |-> BaseMessage(src[p + 2])])
              /\ tokens' = tokens
              /\ i' = q]_vars

\* "0x_1" was rejected as a whole; "\n0b" was rejected on line 2
C11_Witness ==
    \/ /\ src = <<Ch_0, Ch_x, Ch_Underscore, Ch_1>>
       /\ i = 4
       /\ tokens = <<>>
       /\ errors = <<[line |-> 1, col |-> 1, msg |-> <<"invalid hex literal">>]>>
    \/ /\ src = <<Ch_LF, Ch_0, Ch_b>>
       /\ i = 3
       /\ tokens = <<>>
       /\ errors = <<[line |-> 2, col |-> 1, msg |-> <<"invalid binary literal">>]>>

\* the end of the run of digits and underscores that starts at index q
RECURSIVE DigitRunEnd(_, _)
DigitRunEnd(s, q) ==
    IF q < Len(s) /\ (IsDigit(s[q + 1]) \/ s[q + 1] = Ch_Underscore)
    THEN DigitRunEnd(s, q + 1)
    ELSE q

\* the next item is a decimal or float literal: a digit that opens no base prefix
AtDecimal(p) ==
    /\ pc = "lexing"
    /\ p < length
    /\ IsDigit(src[p + 1])
    /\ ~AtBasePrefix(p)

\* the end of the integer part and of the fraction, if there is one, of the
\* literal at p
MantissaEnd(s, p) ==
    LET a == DigitRunEnd(s, p)
    IN  IF a + 1 < Len(s) /\ s[a + 1] = Ch_Dot /\ IsDigit(s[a + 2])
        THEN DigitRunEnd(s, a + 1)
        ELSE a

HasExponentMarker(s, p) ==
    LET f == MantissaEnd(s, p) IN f < Len(s) /\ s[f + 1] \in {Ch_e, Ch_E}

\* the index just after the exponent marker and its optional sign
AfterMarkerAndSign(s, p) ==
    LET m == MantissaEnd(s, p) + 1
    IN  IF m < Len(s) /\ s[m + 1] \in {Ch_Plus, Ch_Minus} THEN m + 1 ELSE m

\* the literal at p has an exponent marker that no digit follows
BadExponent(s, p) ==
    /\ HasExponentMarker(s, p)
    /\ LET m == AfterMarkerAndSign(s, p) IN ~(m < Len(s) /\ IsDigit(s[m + 1]))

\* C12: in a decimal or float literal whose exponent marker and optional sign
\* are not followed by a digit, the call records exactly one error "invalid
\* float exponent" at the start of the literal, emits no token, and leaves
\* the cursor just after the marker and sign.
C12_InvalidFloatExponent ==
    [][LET p == AfterTrivia.i
       IN  (AtDecimal(p) /\ BadExponent(src, p))
           => /\ errors' = Append(errors, [line |-> LineOf(src, p), col |-> ColOf(src, p),
                                           msg |-> <<"invalid float exponent">>])
              /\ tokens' = tokens
              /\ i' = AfterMarkerAndSign(src, p)]_vars

\* "1e_1" was rejected at "1e": the cursor is before the "_"
C12_Witness ==
    /\ src = <<Ch_1, Ch_e, Ch_Underscore, Ch_1>>
    /\ i = 2
    /\ tokens = <<>>
    /\ errors = <<[line |-> 1, col |-> 1, msg |-> <<"invalid float exponent">>]>>

\* the runes an underscore may not stand next to
NoUnderscoreNextTo == {Ch_Dot, Ch_e, Ch_E, Ch_x, Ch_X, Ch_b, Ch_B, Ch_o, Ch_O}

\* the underscore rule is broken by the digit-bearing text t
UnderscoreRuleBroken(t) ==
    \/ t = <<>>
    \/ t[1] = Ch_Underscore
    \/ t[Len(t)] = Ch_Underscore
    \/ \E k \in 1..(Len(t) - 1) :
          \/ t[k] = Ch_Underscore /\ t[k + 1] = Ch_Underscore
          \/ t[k] = Ch_Underscore /\ t[k + 1] \in NoUnderscoreNextTo
          \/ t[k] \in NoUnderscoreNextTo /\ t[k + 1] = Ch_Underscore

\* the lexeme without its base prefix, if it has one
DigitBearingText(lex) == IF BasePrefixed(lex) THEN SubSeq(lex, 3, Len(lex)) ELSE lex

NoBadNumberToken ==
    \A k \in 1..Len(tokens) :
        tokens[k].type \in {"INT_LIT", "FLOAT_LIT"} =>
            ~UnderscoreRuleBroken(DigitBearingText(tokens[k].lexeme))

\* the call rejected the text from p on with "illegal underscore placement in
\* number" and emitted no token
IllegalUnderscoreAt(p) ==
    /\ errors' = Append(errors, [line |-> LineOf(src, p), col |-> ColOf(src, p),
                                 msg |-> <<"illegal underscore placement in number">>])
    /\ tokens' = tokens

\* C13 as stated: no INT_LIT or FLOAT_LIT is emitted whose digit-bearing text
\* breaks the underscore rule, and every decimal or float attempt whose
\* consumed text breaks the rule yields exactly one error "illegal underscore
\* placement in number" at the start of the literal and no token.
C13_UnderscoreRule ==
    [][LET p == AfterTrivia.i
       IN  /\ NoBadNumberToken'
           /\ (AtDecimal(p) /\ UnderscoreRuleBroken(SubSeq(src, p + 1, i')))
                 => IllegalUnderscoreAt(p)]_vars

\* C13, amended: no INT_LIT or FLOAT_LIT is emitted whose digit-bearing text
\* breaks the underscore rule, and every decimal or float attempt whose
\* exponent marker, if it has one, is followed by a digit and whose consumed
\* text breaks the rule yields exactly one error "illegal underscore placement
\* in number" at the start of the literal and no token.
C13_UnderscoreRuleAfterExponent ==
    [][LET p == AfterTrivia.i
       IN  /\ NoBadNumberToken'
           /\ (AtDecimal(p) /\ ~BadExponent(src, p)
               /\ UnderscoreRuleBroken(SubSeq(src, p + 1, i')))
                 => IllegalUnderscoreAt(p)]_vars

\* "1_.1" was consumed as a whole and rejected
C13_Witness ==
    /\ src = <<Ch_1, Ch_Underscore, Ch_Dot, Ch_1>>
    /\ i = 4
    /\ tokens = <<>>
    /\ errors = <<[line |-> 1, col |-> 1, msg |-> <<"illegal underscore placement in number">>]>>

\* The scan of a string body from index q on, a backslash and the code point
\* after it being one unit: where the first closing quote outside such a unit
\* is, or how the body ends without one.
RECURSIVE StringScan(_, _)
StringScan(s, q) ==
    IF q >= Len(s) \/ s[q + 1] = Ch_LF THEN [kind |-> "unterminated", end |-> q]
    ELSE IF s[q + 1] = Ch_BSL
    THEN IF q + 1 >= Len(s) \/ s[q + 2] = Ch_LF
         THEN [kind |-> "escape", end |-> q + 1]
         ELSE StringScan(s, q + 2)
    ELSE IF s[q + 1] = Ch_DQ THEN [kind |-> "closed", end |-> q + 1]
    ELSE StringScan(s, q + 1)

\* the step appended exactly one error, with message m, and no token
OneErrorNoToken(m) ==
    /\ tokens' = tokens
    /\ Len(errors') = Len(errors) + 1
    /\ SubSeq(errors', 1, Len(errors)) = errors
    /\ errors'[Len(errors')].msg = m

\* the step appended exactly one token, of type tt with lexeme lex, and no error
OneTokenNoError(tt, lex) ==
    /\ errors' = errors
    /\ Len(tokens') = Len(tokens) + 1
    /\ SubSeq(tokens', 1, Len(tokens)) = tokens
    /\ tokens'[Len(tokens')].type = tt
    /\ tokens'[Len(tokens')].lexeme = lex

\* C14: a string whose closing quote (the first quote that is not the second
\* code point of a backslash unit) comes before the end of input and before
\* any unescaped newline yields exactly one STRING_LIT with the source text
\* from the opening through the closing quote and the cursor just after it;
\* any other string yields no token and exactly one error, "unterminated
\* string escape" when the end of input or a newline follows a backslash,
\* "unterminated string literal" otherwise.
C14_StringLiteral ==
    [][LET p == AfterTrivia.i
           r == StringScan(src, p + 1)
       IN  (pc = "lexing" /\ p < length /\ src[p + 1] = Ch_DQ)
           => IF r.kind = "closed"
              THEN OneTokenNoError("STRING_LIT", SubSeq(src, p + 1, r.end)) /\ i' = r.end
              ELSE IF r.kind = "escape"
              THEN OneErrorNoToken(<<"unterminated string escape">>)
              ELSE OneErrorNoToken(<<"unterminated string literal">>)]_vars

\* How the block comment ends whose body is scanned from index q on at the
\* given depth: each "/*" raises the depth by one, each "*/" lowers it by
\* one, and the comment is closed where the depth returns to zero; it is not
\* closed when the input ends first.
RECURSIVE CommentEnd(_, _, _)
CommentEnd(s, q, depth) ==
    IF depth = 0 THEN [closed |-> TRUE, end |-> q]
    ELSE IF q >= Len(s) THEN [closed |-> FALSE, end |-> q]
    ELSE IF q + 1 < Len(s) /\ s[q + 1] = Ch_Slash /\ s[q + 2] = Ch_Star
    THEN CommentEnd(s, q + 2, depth + 1)
    ELSE IF q + 1 < Len(s) /\ s[q + 1] = Ch_Star /\ s[q + 2] = Ch_Slash
    THEN CommentEnd(s, q + 2, depth - 1)
    ELSE CommentEnd(s, q + 1, depth)

\* a block comment opens at index q
OpensComment(s, q) == q + 1 < Len(s) /\ s[q + 1] = Ch_Slash /\ s[q + 2] = Ch_Star

\* the Lexer with the cursor moved to index q of the input
LxAt(q) == [Lx EXCEPT !.i = q, !.line = LineOf(src, q), !.col = ColOf(src, q), !.at = q]

\* C15: block comments nest, and a balanced nested comment produces no token
\* and no error: a call that starts at the opening of a comment whose depth
\* returns to zero at some index does exactly what it would do started there, so
\* the text after the final "*/" is lexed normally.
C15_NestedBlockComment ==
    [][LET e == CommentEnd(src, i + 2, 1)
       IN  (pc = "lexing" /\ OpensComment(src, i) /\ e.closed)
           => /\ tokens' = nextToken(LxAt(e.end)).lx.tokens
              /\ errors' = nextToken(LxAt(e.end)).lx.errors
              /\ i' = nextToken(LxAt(e.end)).lx.i]_vars

\* the index after the line comment that starts at index q: after the end of
\* its line, or the end of the input
RECURSIVE LineCommentEnd(_, _)
LineCommentEnd(s, q) ==
    IF q >= Len(s) THEN q
    ELSE IF s[q + 1] = Ch_LF THEN q + 1
    ELSE LineCommentEnd(s, q + 1)

\* Trivia skipped from index q on: whether the input ends inside a block
\* comment, and the index of the outermost opening of that comment (else the
\* index of the first code point that is not trivia).
RECURSIVE TriviaScan(_, _)
TriviaScan(s, q) ==
    IF q < Len(s) /\ s[q + 1] \in {Ch_SP, Ch_TAB, Ch_CR, Ch_LF} THEN TriviaScan(s, q + 1)
    ELSE IF q + 1 < Len(s) /\ s[q + 1] = Ch_Slash /\ s[q + 2] = Ch_Slash
    THEN TriviaScan(s, LineCommentEnd(s, q))
    ELSE IF OpensComment(s, q)
    THEN LET e == CommentEnd(s, q + 2, 1)
         IN  IF e.closed THEN TriviaScan(s, e.end)
             ELSE [unterminated |-> TRUE, at |-> q]
    ELSE [unterminated |-> FALSE, at |-> q]

\* C16: when the end of input is reached inside a block comment, the call
\* records exactly one error "unterminated block comment" with the position
\* of the outermost opening of that comment, whatever the nesting depth,
\* emits no token, and the run ends there.
C16_UnterminatedBlockComment ==
    [][LET t == TriviaScan(src, i)
       IN  (pc = "lexing" /\ t.unterminated)
           => /\ errors' = Append(errors, [line |-> LineOf(src, t.at), col |-> ColOf(src, t.at),
                                           msg |-> <<"unterminated block comment">>])
              /\ tokens' = tokens
              /\ pc' = "done"]_vars

\* list b is list a with n entries appended
Appended(a, b, n) == Len(b) = Len(a) + n /\ SubSeq(b, 1, Len(a)) = a

\* C17: a call of nextToken that returns true appends exactly one item:
\* one token and no error, or one error and no token.  A call that returns
\* false appends no token and at most one error, the unterminated block
\* comment.  Both lists are append-only.
C17_OneItemPerCall ==
    [][/\ \E n \in 0..1 : Appended(tokens, tokens', n)
       /\ \E n \in 0..1 : Appended(errors, errors', n)
       /\ pc' = "lexing" =>
             (Len(tokens') - Len(tokens)) + (Len(errors') - Len(errors)) = 1
       /\ pc' = "done" =>
             /\ tokens' = tokens
             /\ errors' # errors =>
                   errors'[Len(errors')].msg = <<"unterminated block comment">>]_vars

\* "j/*": one call appended a token, the last one only an error
C17_Witness ==
    /\ src = <<Ch_j, Ch_Slash, Ch_Star>>
    /\ pc = "done"
    /\ Len(tokens) = 1
    /\ Len(errors) = 1

\* line and col of the Lexer lx are those of its cursor
Tracked(lx) == lx.line = LineOf(lx.src, lx.i) /\ lx.col = ColOf(lx.src, lx.i)

\* the position tracker in one state: line and col are those of the cursor,
\* one more advance keeps them so and does not move the cursor back, and
\* advance at the end of input returns the sentinel and changes nothing
PositionTracked ==
    /\ Tracked(Lx)
    /\ Tracked(advance(Lx))
    /\ advance(Lx).i >= i
    /\ i >= length => advanceRet(Lx) = 0 /\ advance(Lx) = Lx

\* C18: in every reachable state line is 1 plus the number of newlines before
\* the cursor and col is 1 plus the number of code points after the last of
\* them; advance at the end of input returns the sentinel and changes none
\* of cursor, line and col; the cursor never decreases.
C18_PositionTracker ==
    PositionTracked /\ [][PositionTracked' /\ i' >= i]_vars

\* "\nj" was consumed to its end: the cursor is on line 2, column 2
C18_Witness ==
    /\ src = <<Ch_LF, Ch_j>>
    /\ i = 2
    /\ line = 2
    /\ col = 2

\* the code point at index q of s is present, and is none of the runes in no
Has(s, q, no) == q < Len(s) /\ s[q + 1] \notin no

\* How the char literal that opens at index p ends: as a CHAR_LIT of len code
\* points, or with which message.  The backslash alternative comes first, as
\* in section 4.6 of the specification.
CharScan(s, p) ==
    IF p + 1 < Len(s) /\ s[p + 2] = Ch_BSL
    THEN IF ~Has(s, p + 2, {Ch_LF}) THEN [ok |-> FALSE, msg |-> <<"unterminated char escape">>]
         ELSE IF ~(p + 3 < Len(s) /\ s[p + 4] = Ch_SQ)
         THEN [ok |-> FALSE, msg |-> <<"unterminated char literal">>]
         ELSE [ok |-> TRUE, len |-> 4]
    ELSE IF ~Has(s, p + 1, {Ch_SQ, Ch_LF}) THEN [ok |-> FALSE, msg |-> <<"empty or invalid char literal">>]
    ELSE IF ~(p + 2 < Len(s) /\ s[p + 3] = Ch_SQ)
    THEN [ok |-> FALSE, msg |-> <<"unterminated char literal">>]
    ELSE [ok |-> TRUE, len |-> 3]

\* C19: at a single quote the call emits exactly one CHAR_LIT, whose lexeme
\* is the full delimited text, if and only if the quote is followed by a
\* backslash plus one code point that is neither the end of input nor a
\* newline, or by one code point that is none of quote, newline and end of
\* input, and then by a closing quote; in every other case it emits no token
\* and exactly one error at the position of the opening quote, with the
\* message of the place where the literal fails.
C19_CharLiteral ==
    [][LET p == AfterTrivia.i
           r == CharScan(src, p)
       IN  (pc = "lexing" /\ p < length /\ src[p + 1] = Ch_SQ)
           => IF r.ok
              THEN OneTokenNoError("CHAR_LIT", SubSeq(src, p + 1, p + r.len))
              ELSE /\ tokens' = tokens
                   /\ errors' = Append(errors, [line |-> LineOf(src, p), col |-> ColOf(src, p),
                                                msg |-> r.msg])]_vars

\* the offsets peek is tried with
MaxOffset == 3

\* C20: for every cursor and every offset, negative ones included, peek
\* returns the code point at cursor + offset when that index is within the
\* input and the end sentinel 0 when it is out of bounds on either side; it
\* never fails.  (peek assigns nothing, so cursor, line and col are unchanged.)
C20_PeekTotal ==
    \A n \in (0 - MaxOffset)..MaxOffset :
        peek(Lx, n) = IF 0 <= i + n /\ i + n < length THEN src[i + n + 1] ELSE 0

====
